---- MODULE Spec2Model ----
(***************************************************************************)
(* Model of the ShadowGit MCP server (class ShadowGitMCPServer): the       *)
(* repository registry, the path resolver (resolveRepoPath), the command   *)
(* authorizer and execution adapter (executeGit) and the tool-call         *)
(* handlers (handleGit, handleListRepos).                                   *)
(*                                                                         *)
(* A JavaScript string is a sequence of characters; a character is a       *)
(* one-character TLA+ string, except that a control character and the     *)
(* backquote are written "xHH", HH being the code in hexadecimal ("x01"    *)
(* is U+0001).                                                             *)
(***************************************************************************)
EXTENDS Integers, Sequences, FiniteSets, TLC

VARIABLES reposJson, repos, fs, processEnv, refs, pc, req, resp, trace,
          invoked, result, isShuttingDown, timers, exits, transport

vars ==
  <<reposJson, repos, fs, processEnv, refs, pc, req, resp, trace, invoked,
    result, isShuttingDown, timers, exits, transport>>

----------------------------------------------------------------------------
(* Characters and strings                                                  *)

\* ASCII[i + 1] is the character with code i.
ASCII ==
  <<"x00", "x01", "x02", "x03", "x04", "x05", "x06", "x07", "x08", "x09",
    "x0A", "x0B", "x0C", "x0D", "x0E", "x0F", "x10", "x11", "x12", "x13",
    "x14", "x15", "x16", "x17", "x18", "x19", "x1A", "x1B", "x1C", "x1D",
    "x1E", "x1F", " ", "!", "\"", "#", "$", "%", "&", "'", "(", ")", "*",
    "+", ",", "-", ".", "/", "0", "1", "2", "3", "4", "5", "6", "7", "8",
    "9", ":", ";", "<", "=", ">", "?", "@", "A", "B", "C", "D", "E", "F",
    "G", "H", "I", "J", "K", "L", "M", "N", "O", "P", "Q", "R", "S", "T",
    "U", "V", "W", "X", "Y", "Z", "[", "\\", "]", "^", "_", "x60", "a", "b",
    "c", "d", "e", "f", "g", "h", "i", "j", "k", "l", "m", "n", "o", "p",
    "q", "r", "s", "t", "u", "v", "w", "x", "y", "z", "{", "|", "}", "~",
    "x7F"
  >>

CharCode(c) == (CHOOSE i \in 1..Len(ASCII) : ASCII[i] = c) - 1

CharsOfCodes(codes) == {ASCII[i + 1] : i \in codes}

\* The character class [\x00-\x08\x0B\x0C\x0E-\x1F\x7F].
ControlChars == CharsOfCodes((0..8) \cup (11..12) \cup (14..31) \cup {127})

\* The ASCII members of the class \s (also what String.prototype.trim strips).
Whitespace == CharsOfCodes((9..13) \cup {32})

Min(S) == CHOOSE x \in S : \A y \in S : x <= y

Max(S) == CHOOSE x \in S : \A y \in S : x >= y

\* String.prototype.includes
Includes(s, t) ==
  \E i \in 1..(Len(s) - Len(t) + 1) : SubSeq(s, i, i + Len(t) - 1) = t

\* String.prototype.startsWith
StartsWith(s, t) == Len(s) >= Len(t) /\ SubSeq(s, 1, Len(t)) = t

\* String.prototype.toLowerCase
ToLowerCase(s) ==
  [i \in 1..Len(s) |->
     IF CharCode(s[i]) \in 65..90 THEN ASCII[CharCode(s[i]) + 32 + 1] ELSE s[i]]

\* String.prototype.trim
Trim(s) ==
  LET keep == {i \in 1..Len(s) : s[i] \notin Whitespace}
  IN  IF keep = {} THEN <<>> ELSE SubSeq(s, Min(keep), Max(keep))

\* s.split(/\s+/)[0]
FirstPart(s) ==
  LET ws == {i \in 1..Len(s) : s[i] \in Whitespace}
  IN  IF ws = {} THEN s ELSE SubSeq(s, 1, Min(ws) - 1)

----------------------------------------------------------------------------
(* Constants of the server                                                 *)

SHADOWGIT_DIR == <<".", "s", "h", "a", "d", "o", "w", "g", "i", "t", ".", "g", "i", "t">>


MAX_BUFFER_SIZE == 10 * 1024 * 1024

MAX_COMMAND_LENGTH == 1000

SAFE_COMMANDS ==
  {<<"l", "o", "g">>,   \* log
   <<"d", "i", "f", "f">>,   \* diff
   <<"s", "h", "o", "w">>,   \* show
   <<"b", "l", "a", "m", "e">>,   \* blame
   <<"g", "r", "e", "p">>,   \* grep
   <<"s", "t", "a", "t", "u", "s">>,   \* status
   <<"r", "e", "v", "-", "p", "a", "r", "s", "e">>,   \* rev-parse
   <<"r", "e", "v", "-", "l", "i", "s", "t">>,   \* rev-list
   <<"l", "s", "-", "f", "i", "l", "e", "s">>,   \* ls-files
   <<"c", "a", "t", "-", "f", "i", "l", "e">>,   \* cat-file
   <<"d", "i", "f", "f", "-", "t", "r", "e", "e">>,   \* diff-tree
   <<"s", "h", "o", "r", "t", "l", "o", "g">>,   \* shortlog
   <<"r", "e", "f", "l", "o", "g">>,   \* reflog
   <<"d", "e", "s", "c", "r", "i", "b", "e">>,   \* describe
   <<"b", "r", "a", "n", "c", "h">>,   \* branch
   <<"t", "a", "g">>,   \* tag
   <<"f", "o", "r", "-", "e", "a", "c", "h", "-", "r", "e", "f">>,   \* for-each-ref
   <<"l", "s", "-", "t", "r", "e", "e">>,   \* ls-tree
   <<"m", "e", "r", "g", "e", "-", "b", "a", "s", "e">>,   \* merge-base
   <<"c", "h", "e", "r", "r", "y">>,   \* cherry
   <<"c", "o", "u", "n", "t", "-", "o", "b", "j", "e", "c", "t", "s">>    \* count-objects
  }

BLOCKED_ARGS ==
  <<<<"-", "-", "e", "x", "e", "c">>,   \* --exec
    <<"-", "-", "u", "p", "l", "o", "a", "d", "-", "p", "a", "c", "k">>,   \* --upload-pack
    <<"-", "-", "r", "e", "c", "e", "i", "v", "e", "-", "p", "a", "c", "k">>,   \* --receive-pack
    <<"-", "c">>,   \* -c
    <<"-", "-", "c", "o", "n", "f", "i", "g">>,   \* --config
    <<"-", "-", "w", "o", "r", "k", "-", "t", "r", "e", "e">>,   \* --work-tree
    <<"-", "-", "g", "i", "t", "-", "d", "i", "r">>,   \* --git-dir
    <<"p", "u", "s", "h">>,   \* push
    <<"p", "u", "l", "l">>,   \* pull
    <<"f", "e", "t", "c", "h">>,   \* fetch
    <<"c", "o", "m", "m", "i", "t">>,   \* commit
    <<"m", "e", "r", "g", "e">>,   \* merge
    <<"r", "e", "b", "a", "s", "e">>,   \* rebase
    <<"r", "e", "s", "e", "t">>,   \* reset
    <<"c", "l", "e", "a", "n">>,   \* clean
    <<"c", "h", "e", "c", "k", "o", "u", "t">>,   \* checkout
    <<"a", "d", "d">>,   \* add
    <<"r", "m">>,   \* rm
    <<"m", "v">>,   \* mv
    <<"r", "e", "s", "t", "o", "r", "e">>,   \* restore
    <<"s", "t", "a", "s", "h">>,   \* stash
    <<"r", "e", "m", "o", "t", "e">>,   \* remote
    <<"s", "u", "b", "m", "o", "d", "u", "l", "e">>,   \* submodule
    <<"w", "o", "r", "k", "t", "r", "e", "e">>,   \* worktree
    <<"f", "i", "l", "t", "e", "r", "-", "b", "r", "a", "n", "c", "h">>,   \* filter-branch
    <<"r", "e", "p", "a", "c", "k">>,   \* repack
    <<"g", "c">>,   \* gc
    <<"p", "r", "u", "n", "e">>,   \* prune
    <<"f", "s", "c", "k">>    \* fsck
  >>

PATH_TRAVERSAL_PATTERNS ==
  <<<<".", ".", "/">>,   \* ../
    <<".", ".", "\\">>,   \* ..\
    <<"%", "2", "e", "%", "2", "e">>,   \* %2e%2e
    <<".", ".", "%", "2", "f">>,   \* ..%2f
    <<".", ".", "%", "5", "c">>    \* ..%5c
  >>

----------------------------------------------------------------------------
(* Values                                                                  *)

\* null and undefined: neither is a string of characters.
Null == <<"null">>

Undefined == <<"undefined">>

\* JavaScript truthiness of a string, null or undefined value.
Truthy(v) == v # Null /\ v # Undefined /\ v # <<>>

\* os.homedir()
HomeDir == <<"/", "h">>

----------------------------------------------------------------------------
(* path.normalize, path.isAbsolute and path.join of a POSIX platform       *)

RECURSIVE SplitSlash(_)
\* s.split('/')
SplitSlash(s) ==
  LET sl == {i \in 1..Len(s) : s[i] = "/"}
  IN  IF sl = {} THEN <<s>>
      ELSE <<SubSeq(s, 1, Min(sl) - 1)>> \o SplitSlash(SubSeq(s, Min(sl) + 1, Len(s)))

RECURSIVE JoinSlash(_)
\* segs.join('/')
JoinSlash(segs) ==
  IF segs = <<>> THEN <<>>
  ELSE IF Len(segs) = 1 THEN segs[1]
  ELSE segs[1] \o <<"/">> \o JoinSlash(Tail(segs))

RECURSIVE NormalizeSegments(_, _, _)
\* normalizeString: drops empty and '.' segments and resolves '..' segments.
NormalizeSegments(segs, res, allowAboveRoot) ==
  IF segs = <<>> THEN res
  ELSE LET h == Head(segs)
           t == Tail(segs)
       IN  IF h = <<>> \/ h = <<".">> THEN NormalizeSegments(t, res, allowAboveRoot)
           ELSE IF h = <<".", ".">>
             THEN IF res # <<>> /\ res[Len(res)] # <<".", ".">>
                    THEN NormalizeSegments(t, SubSeq(res, 1, Len(res) - 1), allowAboveRoot)
                  ELSE IF allowAboveRoot
                    THEN NormalizeSegments(t, Append(res, h), allowAboveRoot)
                  ELSE NormalizeSegments(t, res, allowAboveRoot)
           ELSE NormalizeSegments(t, Append(res, h), allowAboveRoot)

IsAbsolute(p) == Len(p) > 0 /\ p[1] = "/"

Normalize(p) ==
  IF p = <<>> THEN <<".">>
  ELSE LET abs      == IsAbsolute(p)
           trailing == p[Len(p)] = "/"
           body     == JoinSlash(NormalizeSegments(SplitSlash(p), <<>>, ~abs))
       IN  IF body = <<>>
             THEN IF abs THEN <<"/">>
                  ELSE IF trailing THEN <<".", "/">> ELSE <<".">>
           ELSE (IF abs THEN <<"/">> ELSE <<>>) \o body
                  \o (IF trailing THEN <<"/">> ELSE <<>>)

PathJoin(a, b) ==
  LET joined == IF a = <<>> THEN b
                ELSE IF b = <<>> THEN a
                ELSE a \o <<"/">> \o b
  IN  IF joined = <<>> THEN <<".">> ELSE Normalize(joined)

----------------------------------------------------------------------------
(* Utility functions                                                       *)

RECURSIVE ParseInt(_)
\* parseInt(s, 10) of a string of decimal digits
ParseInt(s) ==
  IF s = <<>> THEN 0
  ELSE 10 * ParseInt(SubSeq(s, 1, Len(s) - 1)) + (CharCode(s[Len(s)]) - 48)

\* process.env.SHADOWGIT_TIMEOUT, undefined when the variable is not set
SHADOWGIT_TIMEOUT ==
  IF "SHADOWGIT_TIMEOUT" \in DOMAIN processEnv
    THEN processEnv["SHADOWGIT_TIMEOUT"]
  ELSE Undefined

\* parseInt(process.env.SHADOWGIT_TIMEOUT || '10000', 10)
TIMEOUT_MS ==
  ParseInt(IF Truthy(SHADOWGIT_TIMEOUT) THEN SHADOWGIT_TIMEOUT
           ELSE <<"1", "0", "0", "0", "0">>)

\* Mutant of fileExists: every path is reported present.
fileExists_Always(filePath) == TRUE

\* fileExists: fs is the set of the paths for which fs.existsSync is true.
fileExists(filePath) == filePath \in fs

\* Mutant of getShadowgitPath: the location itself stands for its marker.
getShadowgitPath_Location(repoPath) == repoPath

getShadowgitPath(repoPath) == PathJoin(repoPath, SHADOWGIT_DIR)

\* Mutant of getGitEnvironment: the inherited variables are spread last.
getGitEnvironment_InheritedLast(repoPath) ==
  [k \in DOMAIN processEnv \cup {"GIT_DIR", "GIT_WORK_TREE"} |->
     IF k \in DOMAIN processEnv THEN processEnv[k]
     ELSE IF k = "GIT_DIR" THEN getShadowgitPath(repoPath)
     ELSE repoPath]

\* { ...process.env, GIT_DIR: ..., GIT_WORK_TREE: ... }: processEnv is the
\* environment of the server process, a function of the variable names.
getGitEnvironment(repoPath) ==
  [k \in DOMAIN processEnv \cup {"GIT_DIR", "GIT_WORK_TREE"} |->
     IF k = "GIT_DIR" THEN getShadowgitPath(repoPath)
     ELSE IF k = "GIT_WORK_TREE" THEN repoPath
     ELSE processEnv[k]]

\* A parsed JSON value that is not an array: it has no forEach.
NotAnArray == <<"object">>

\* readJsonFile(reposPath, []): the default value for a missing or
\* unparsable file, the parsed value (not validated) otherwise.
readJsonFile(file) == IF file.state = "parsed" THEN file.entries ELSE <<>>

----------------------------------------------------------------------------
(* Registry: a Map, kept as the sequence of its entries in insertion order *)

MapHas(map, key) == \E i \in 1..Len(map) : map[i].name = key

MapGet(map, key) ==
  IF MapHas(map, key)
    THEN map[CHOOSE i \in 1..Len(map) : map[i].name = key].path
  ELSE Undefined

\* Mutant of MapSet: a present key keeps the value it has.
MapSet_KeepFirst(map, key, value) ==
  IF MapHas(map, key) THEN map
  ELSE Append(map, [name |-> key, path |-> value])

\* Map.prototype.set: a present key keeps its position and takes the value.
MapSet(map, key, value) ==
  IF MapHas(map, key)
    THEN [i \in 1..Len(map) |->
            IF map[i].name = key THEN [name |-> key, path |-> value] ELSE map[i]]
  ELSE Append(map, [name |-> key, path |-> value])

RECURSIVE SetAll(_, _)
SetAll(map, list) ==
  IF list = <<>> THEN map
  ELSE SetAll(MapSet(map, Head(list).name, Head(list).path), Tail(list))

\* repos.forEach throws a TypeError when the parsed value is no array.
loadRepositoriesThrows(file) == readJsonFile(file) = NotAnArray

\* The registry that loadRepositories leaves when forEach does not throw.
loadRepositories(file) == SetAll(<<>>, readJsonFile(file))

----------------------------------------------------------------------------
(* Path resolver                                                           *)

\* s.replace('~', os.homedir()): the first '~' of s, wherever it stands.
ReplaceTilde(s) ==
  LET at == {i \in 1..Len(s) : s[i] = "~"}
  IN  IF at = {} THEN s
      ELSE SubSeq(s, 1, Min(at) - 1) \o HomeDir \o SubSeq(s, Min(at) + 1, Len(s))

\* Mutant of HasTraversal: the identifier is not lower-cased.
HasTraversal_CaseSensitive(repoNameOrPath) ==
  \E i \in 1..Len(PATH_TRAVERSAL_PATTERNS) :
     Includes(repoNameOrPath, PATH_TRAVERSAL_PATTERNS[i])

HasTraversal(repoNameOrPath) ==
  \E i \in 1..Len(PATH_TRAVERSAL_PATTERNS) :
     Includes(ToLowerCase(repoNameOrPath), PATH_TRAVERSAL_PATTERNS[i])

isPath(repoNameOrPath) ==
  \/ StartsWith(repoNameOrPath, <<"/">>)
  \/ StartsWith(repoNameOrPath, <<"~">>)
  \/ Includes(repoNameOrPath, <<":">>)
  \/ StartsWith(repoNameOrPath, <<"\\", "\\">>)

\* The accesses a step makes, in order, are kept in its log.
Get(key) == [op |-> "repos.get", arg |-> key]

Exists(p) == [op |-> "existsSync", arg |-> p]

\* resolveRepoPath: the location or Null, with the accesses made.
resolveRepoPath(repoNameOrPath) ==
  IF HasTraversal(repoNameOrPath) THEN [path |-> Null, log |-> <<>>]
  ELSE LET mappedPath == MapGet(repos, repoNameOrPath)
           looked     == <<Get(repoNameOrPath)>>
       IN  IF Truthy(mappedPath) THEN [path |-> mappedPath, log |-> looked]
           ELSE IF isPath(repoNameOrPath)
             THEN LET resolvedPath == Normalize(ReplaceTilde(repoNameOrPath))
                  IN  IF ~IsAbsolute(resolvedPath)
                        THEN [path |-> Null, log |-> looked]
                      ELSE IF fileExists(resolvedPath)
                        THEN [path |-> resolvedPath,
                              log  |-> Append(looked, Exists(resolvedPath))]
                      ELSE [path |-> Null,
                            log  |-> Append(looked, Exists(resolvedPath))]
           ELSE [path |-> Null, log |-> looked]

----------------------------------------------------------------------------
(* Command authorizer and execution adapter                                *)

\* Mutant of Sanitize: nothing is stripped.
Sanitize_Nothing(command) == command

\* command.replace(/[\x00-\x08\x0B\x0C\x0E-\x1F\x7F]/g, '')
Sanitize(command) == SelectSeq(command, LAMBDA c : c \notin ControlChars)

\* Mutant of GitCommand: a command that starts with an allow-listed name
\* is taken for that name.
GitCommand_Prefix(sanitizedCommand) ==
  LET t     == Trim(sanitizedCommand)
      names == {c \in SAFE_COMMANDS : StartsWith(t, c)}
  IN  IF names # {} THEN CHOOSE c \in names : TRUE ELSE FirstPart(t)

\* Mutant of GitCommand: the command is split without being trimmed.
GitCommand_Untrimmed(sanitizedCommand) == FirstPart(sanitizedCommand)

\* sanitizedCommand.trim().split(/\s+/)[0]
GitCommand(sanitizedCommand) == FirstPart(Trim(sanitizedCommand))

\* Mutant of BlockedIn: a token counts only as a whole word.
BlockedIn_WholeWords(command) ==
  {i \in 1..Len(BLOCKED_ARGS) :
     \E a \in 1..Len(command) :
        LET b == a + Len(BLOCKED_ARGS[i]) - 1
        IN  /\ b <= Len(command)
            /\ SubSeq(command, a, b) = BLOCKED_ARGS[i]
            /\ a = 1 \/ command[a - 1] \in Whitespace
            /\ b = Len(command) \/ command[b + 1] \in Whitespace}

\* The deny-list scan: the indexes of the tokens that the scanned string
\* includes. The scanned string is the command as received.
BlockedIn(command) ==
  {i \in 1..Len(BLOCKED_ARGS) : Includes(command, BLOCKED_ARGS[i])}

\* Mutant of TooLong: a command of the maximum length is rejected too.
TooLong_Inclusive(command) == Len(command) >= MAX_COMMAND_LENGTH

\* The length check, made on the command as received.
TooLong(command) == Len(command) > MAX_COMMAND_LENGTH

Check(name) == [op |-> name, arg |-> <<>>]

\* A response text is the template (kind) and the text interpolated in it.
Text(kind, text) == [kind |-> kind, text |-> text]

NoText == Text("none", <<>>)

\* The options object of the execSync call.
ExecCall(commandLine, repoPath) ==
  [command   |-> commandLine,
   cwd       |-> repoPath,
   env       |-> getGitEnvironment(repoPath),
   timeout   |-> TIMEOUT_MS,
   maxBuffer |-> MAX_BUFFER_SIZE]

\* executeGit up to the execSync call: either the text returned without a
\* subprocess (call is empty) or the subprocess invocation.
executeGit(command, repoPath) ==
  IF TooLong(command)
    THEN [text |-> Text("TooLong", <<>>), call |-> <<>>,
          log |-> <<Check("length")>>]
  ELSE LET sanitizedCommand == Sanitize(command)
           gitCommand       == GitCommand(sanitizedCommand)
           blocked          == BlockedIn(command)
       IN  IF gitCommand \notin SAFE_COMMANDS
             THEN [text |-> Text("NotAllowed", gitCommand), call |-> <<>>,
                   log |-> <<Check("length"), Check("allow-list")>>]
           ELSE IF blocked # {}
             THEN [text |-> Text("Blocked", BLOCKED_ARGS[Min(blocked)]),
                   call |-> <<>>,
                   log |-> <<Check("length"), Check("allow-list"),
                             Check("deny-list")>>]
           ELSE [text |-> NoText,
                 call |-> <<ExecCall(<<"g", "i", "t", " ">> \o sanitizedCommand, repoPath)>>,
                 log |-> <<Check("length"), Check("allow-list"),
                           Check("deny-list"), Check("execSync")>>]

RECURSIVE NumberToString(_)
\* `${n}` of a natural number
NumberToString(n) ==
  IF n < 10 THEN <<ASCII[48 + n + 1]>>
  ELSE Append(NumberToString(n \div 10), ASCII[48 + (n % 10) + 1])

\* Mutant of RedactPaths: only the first match is replaced (no g flag).
RedactPaths_FirstOnly(s) ==
  LET at == {i \in 1..Len(s) : s[i] = "/"}
  IN  IF at = {} THEN s
      ELSE LET from == Min(at)
               ws   == {i \in from..Len(s) : s[i] \in Whitespace}
               stop == IF ws = {} THEN Len(s) + 1 ELSE Min(ws)
           IN  SubSeq(s, 1, from - 1) \o <<"[", "p", "a", "t", "h", "]">>
                 \o SubSeq(s, stop, Len(s))

RECURSIVE RedactPaths(_)
\* stderr.replace(/\/[^\s]*/g, '[path]')
RedactPaths(s) ==
  IF s = <<>> THEN <<>>
  ELSE IF s[1] = "/"
    THEN LET ws   == {i \in 1..Len(s) : s[i] \in Whitespace}
             stop == IF ws = {} THEN Len(s) + 1 ELSE Min(ws)
         IN  <<"[", "p", "a", "t", "h", "]">> \o RedactPaths(SubSeq(s, stop, Len(s)))
  ELSE <<s[1]>> \o RedactPaths(Tail(s))

\* Mutant of ExecutionText: the buffer overflow is tested before the
\* termination signal.
ExecutionText_OverflowFirst(outcome) ==
  IF outcome.ok
    THEN IF outcome.stdout # <<>> THEN Text("Output", outcome.stdout)
         ELSE Text("EmptyOutput", <<>>)
  ELSE IF outcome.code = "ENOENT" THEN Text("GitMissing", <<>>)
  ELSE IF outcome.code = "ENOBUFS" \/ Includes(outcome.message, <<"m", "a", "x", "B", "u", "f", "f", "e", "r">>)
    THEN Text("OutputTooLarge", <<>>)
  ELSE IF outcome.signal = "SIGTERM"
    THEN Text("Timeout", NumberToString(TIMEOUT_MS \div 1000))
  ELSE IF outcome.status = 128
    THEN Text("GitError",
              RedactPaths(IF outcome.stderr # <<>> THEN outcome.stderr
                          ELSE outcome.message))
  ELSE Text("GenericError",
            SubSeq(outcome.message, 1,
                   IF Len(outcome.message) < 200 THEN Len(outcome.message) ELSE 200))

\* The text executeGit returns when execSync returned or threw.
ExecutionText(outcome) ==
  IF outcome.ok
    THEN IF outcome.stdout # <<>> THEN Text("Output", outcome.stdout)
         ELSE Text("EmptyOutput", <<>>)
  ELSE IF outcome.code = "ENOENT" THEN Text("GitMissing", <<>>)
  ELSE IF outcome.signal = "SIGTERM"
    THEN Text("Timeout", NumberToString(TIMEOUT_MS \div 1000))
  ELSE IF outcome.code = "ENOBUFS" \/ Includes(outcome.message, <<"m", "a", "x", "B", "u", "f", "f", "e", "r">>)
    THEN Text("OutputTooLarge", <<>>)
  ELSE IF outcome.status = 128
    THEN Text("GitError",
              RedactPaths(IF outcome.stderr # <<>> THEN outcome.stderr
                          ELSE outcome.message))
  ELSE Text("GenericError",
            SubSeq(outcome.message, 1,
                   IF Len(outcome.message) < 200 THEN Len(outcome.message) ELSE 200))

----------------------------------------------------------------------------
(* Tool-call handlers                                                      *)

\* A value that is not a string (a number, say).
NotAString == <<"number">>

IsString(v) == v \notin {Null, Undefined, NotAString}

\* Mutant of isGitCommandArgs: only repo is required to be a string.
isGitCommandArgs_RepoOnly(args) == args.isObject /\ IsString(args.repo)

isGitCommandArgs(args) ==
  args.isObject /\ IsString(args.repo) /\ IsString(args.command)

RECURSIVE JoinWith(_, _)
\* list.join(sep)
JoinWith(list, sep) ==
  IF list = <<>> THEN <<>>
  ELSE IF Len(list) = 1 THEN list[1]
  ELSE list[1] \o sep \o JoinWith(Tail(list), sep)

Keys(map) == [i \in 1..Len(map) |-> map[i].name]

\* The names listed by the not-found text: the keys that do not start
\* with '/', or '(none)'.
availableRepos ==
  LET names  == SelectSeq(Keys(repos), LAMBDA key : ~StartsWith(key, <<"/">>))
      joined == JoinWith(names, <<",", " ">>)
  IN  IF joined # <<>> THEN joined ELSE <<"(", "n", "o", "n", "e", ")">>

\* handleGit up to the execSync call.
handleGit(args) ==
  IF ~isGitCommandArgs(args)
    THEN [text |-> Text("UsageError", <<>>), call |-> <<>>, log |-> <<>>]
  ELSE LET resolved == resolveRepoPath(args.repo)
           repoPath == resolved.path
       IN  IF ~Truthy(repoPath)
             THEN [text |-> Text("NotFound", availableRepos), call |-> <<>>,
                   log |-> resolved.log]
           ELSE LET shadowGitDir == getShadowgitPath(repoPath)
                    checked      == Append(resolved.log, Exists(shadowGitDir))
                IN  IF ~fileExists(shadowGitDir)
                      THEN [text |-> Text("NotTracked", repoPath),
                            call |-> <<>>, log |-> checked]
                    ELSE LET run == executeGit(args.command, repoPath)
                         IN  [text |-> run.text, call |-> run.call,
                              log |-> checked \o run.log]

\* Mutant of ListEntry: the location is left out of the entry.
ListEntry_NameOnly(entry) == <<"u2022", " ">> \o entry.name

\* The bullet of a list entry is written "u2022".
ListEntry(entry) == <<"u2022", " ">> \o entry.name \o <<"x0A", " ", " ", "P", "a", "t", "h", ":", " ">> \o entry.path

handleListRepos ==
  IF Len(repos) = 0
    THEN [text |-> Text("ListEmpty", <<>>), call |-> <<>>, log |-> <<>>]
  ELSE [text |-> Text("List",
                      JoinWith([i \in 1..Len(repos) |-> ListEntry(repos[i])],
                               <<"x0A", "x0A">>)),
        call |-> <<>>, log |-> <<>>]

\* Mutant of CallToolHandler: an unknown tool name is answered by an error
\* thrown, not by a text.
CallToolHandler_ThrowUnknown(request) ==
  IF request.name = "git" THEN handleGit(request.arguments)
  ELSE IF request.name = "list_repos" THEN handleListRepos
  ELSE [text |-> NoText, call |-> <<>>, log |-> <<>>]

\* The handler of CallToolRequestSchema.
CallToolHandler(request) ==
  IF request.name = "git" THEN handleGit(request.arguments)
  ELSE IF request.name = "list_repos" THEN handleListRepos
  ELSE [text |-> Text("UnknownTool", <<>>), call |-> <<>>, log |-> <<>>]

----------------------------------------------------------------------------
(* The git subprocess                                                      *)

\* What execSync can yield: the output of a subprocess that exited with
\* status 0, or the error it throws (code, signal, status, stderr, message;
\* a status of -1 stands for null).
Returned(stdout) ==
  [ok |-> TRUE, stdout |-> stdout, code |-> "", signal |-> "", status |-> 0,
   stderr |-> <<>>, message |-> <<>>]

Thrown(code, signal, status, stderr, message) ==
  [ok |-> FALSE, stdout |-> <<>>, code |-> code, signal |-> signal,
   status |-> status, stderr |-> stderr, message |-> message]

NoResult == Returned(<<"none">>)

\* The error execSync throws when its timeout expired.
TimedOut ==
  Thrown("ETIMEDOUT", "SIGTERM", -1, <<>>, <<"s", "p", "a", "w", "n", "S", "y", "n", "c", " ", "/", "b", "i", "n", "/", "s", "h", " ", "E", "T", "I", "M", "E", "D", "O", "U", "T">>)

ExecResults ==
  {Returned(<<"o">>),
   Returned(<<>>),
   Thrown("ENOENT", "", -1, <<>>, <<"s", "p", "a", "w", "n", "S", "y", "n", "c", " ", "/", "b", "i", "n", "/", "s", "h", " ", "E", "N", "O", "E", "N", "T">>),
   Thrown("ENOBUFS", "SIGTERM", -1, <<>>, <<"s", "p", "a", "w", "n", "S", "y", "n", "c", " ", "/", "b", "i", "n", "/", "s", "h", " ", "E", "N", "O", "B", "U", "F", "S">>),
   Thrown("ENOBUFS", "", -1, <<>>, <<"s", "p", "a", "w", "n", "S", "y", "n", "c", " ", "/", "b", "i", "n", "/", "s", "h", " ", "E", "N", "O", "B", "U", "F", "S">>),
   Thrown("", "", -1, <<>>, <<"s", "t", "d", "o", "u", "t", " ", "m", "a", "x", "B", "u", "f", "f", "e", "r", " ", "l", "e", "n", "g", "t", "h", " ", "e", "x", "c", "e", "e", "d", "e", "d">>),
   Thrown("", "", 128, <<"f", "a", "t", "a", "l", ":", " ", "b", "a", "d", " ", "/", "a", "/", ".", "s", "h", "a", "d", "o", "w", "g", "i", "t", ".", "g", "i", "t", "x0A">>, <<"C", "o", "m", "m", "a", "n", "d", " ", "f", "a", "i", "l", "e", "d", ":", " ", "g", "i", "t", " ", "t", "a", "g", "x0A", "f", "a", "t", "a", "l", ":", " ", "b", "a", "d", " ", "/", "a", "/", ".", "s", "h", "a", "d", "o", "w", "g", "i", "t", ".", "g", "i", "t">>),
   Thrown("", "", 128, <<>>, <<"C", "o", "m", "m", "a", "n", "d", " ", "f", "a", "i", "l", "e", "d", ":", " ", "g", "i", "t", " ", "t", "a", "g", "x0A", "f", "a", "t", "a", "l", ":", " ", "b", "a", "d", " ", "/", "a", "/", ".", "s", "h", "a", "d", "o", "w", "g", "i", "t", ".", "g", "i", "t">>),
   Thrown("", "", 128, <<"f", "a", "t", "a", "l", ":", " ", "a", "/", "b", " ", "/", "/", "c", "x0A">>, <<"C", "o", "m", "m", "a", "n", "d", " ", "f", "a", "i", "l", "e", "d", ":", " ", "g", "i", "t", " ", "t", "a", "g", "x0A", "f", "a", "t", "a", "l", ":", " ", "b", "a", "d", " ", "/", "a", "/", ".", "s", "h", "a", "d", "o", "w", "g", "i", "t", ".", "g", "i", "t">>),
   Thrown("", "", 1, <<"f", "a", "t", "a", "l", ":", " ", "b", "a", "d", " ", "/", "a", "/", ".", "s", "h", "a", "d", "o", "w", "g", "i", "t", ".", "g", "i", "t", "x0A">>, <<"C", "o", "m", "m", "a", "n", "d", " ", "f", "a", "i", "l", "e", "d", ":", " ", "g", "i", "t", " ", "t", "a", "g", "x0A", "f", "a", "t", "a", "l", ":", " ", "b", "a", "d", " ", "/", "a", "/", ".", "s", "h", "a", "d", "o", "w", "g", "i", "t", ".", "g", "i", "t">>)}

\* The names of the tags the model of the snapshot store can hold.
TagNames == {<<"r">>}

RECURSIVE Words(_)
\* The words of a command line made of letters and blanks only.
Words(line) ==
  LET t == Trim(line)
  IN  IF t = <<>> THEN <<>>
      ELSE <<FirstPart(t)>> \o Words(SubSeq(t, Len(FirstPart(t)) + 1, Len(t)))

\* The refs of the snapshot store after a subprocess that ran commandLine
\* exited with status 0. Only `git tag <name>` (create the tag <name>) is
\* modelled; every other command line is taken to leave the refs alone.
GitEffect(commandLine, store) ==
  LET words == Words(commandLine)
  IN  IF /\ Len(words) = 3
         /\ words[1] = <<"g", "i", "t">>
         /\ words[2] = <<"t", "a", "g">>
         /\ words[3] \in TagNames
        THEN store \cup {words[3]}
      ELSE store

----------------------------------------------------------------------------
(* Inputs                                                                  *)

\* The longest tail of an enumerated command.
MaxTail == 3

\* The longest enumerated repository identifier.
MaxIdLen == 3

\* The strings of at most n characters of the set chars.
Strings(chars, n) == UNION {[1..k -> chars] : k \in 0..n}

\* base followed by as many 'z' as make a string of n characters.
Pad(base, n) == base \o [i \in 1..(n - Len(base)) |-> "z"]

Entry(name, path) == [name |-> name, path |-> path]

\* The content of repos.json.
MissingFile == [state |-> "missing", entries |-> <<>>]

\* A file that cannot be read or whose text is not JSON.
InvalidFile == [state |-> "invalid", entries |-> <<>>]

\* A file whose text is the JSON of a value that is not an array ({}, say).
ObjectFile == [state |-> "parsed", entries |-> NotAnArray]

ArrayFile ==
  [state |-> "parsed",
   entries |-> <<Entry(<<"r">>, <<"/", "x">>),
                 Entry(<<"n">>, <<"/", "x">>),
                 Entry(<<".", ".", "/">>, <<"/", "a">>),
                 Entry(<<"/", "b">>, <<"/", "a">>),
                 Entry(<<"e">>, <<>>),
                 Entry(<<"r">>, <<"/", "a">>)>>]

\* The paths that exist: /a and the home directory /h.
Directories ==
  {<<"/">>, <<"/", "a">>, <<"/", "a", "/">>, <<"/", "h">>, <<"/", "h", "/">>}

\* /a holds a snapshot store.
Tracked == Directories \cup {<<"/", "a", "/">> \o SHADOWGIT_DIR}

\* The environment of the server process: with and without a GIT_DIR and
\* a GIT_WORK_TREE of its own.
PlainEnv == [PATH |-> <<"/", "b">>]

GitEnv ==
  [PATH |-> <<"/", "b">>, GIT_DIR |-> <<"/", "x">>, GIT_WORK_TREE |-> <<"/">>]

\* An environment that sets the timeout to 0.
ZeroTimeoutEnv == [PATH |-> <<"/", "b">>, SHADOWGIT_TIMEOUT |-> <<"0">>]

\* The registry file, the file system and the environment the server
\* starts with.
Worlds ==
  {[file |-> ArrayFile, fs |-> Tracked, env |-> GitEnv],
   [file |-> ArrayFile, fs |-> Directories, env |-> PlainEnv],
   [file |-> MissingFile, fs |-> Tracked, env |-> ZeroTimeoutEnv],
   [file |-> InvalidFile, fs |-> Directories, env |-> PlainEnv],
   [file |-> ObjectFile, fs |-> Tracked, env |-> PlainEnv]}

CommandHeads ==
  {<<>>,
   <<"t", "a", "g">>,
   <<"t", "a", "g", " ">>,
   <<"x09", "t", "a", "g", "x09">>,
   <<"t", "x01", "a", "x0B", "g", " ">>,
   <<"c", "o", "m", "m", "i", "t">>}

CommandTails == Strings({"r", "m", "x01"}, MaxTail)

LongCommands ==
  {Pad(<<"t", "a", "g", " ">>, MAX_COMMAND_LENGTH),
   Pad(<<"t", "a", "g", " ">>, MAX_COMMAND_LENGTH + 1),
   Pad(<<"t", "a", "g", " ", "r", "m", " ">>, MAX_COMMAND_LENGTH),
   Pad(<<"t", "a", "g", " ", "r", "m", " ">>, MAX_COMMAND_LENGTH + 1),
   Pad(<<"t", "a", "g", " ", "x01">>, MAX_COMMAND_LENGTH + 1),
   Pad(<<"r", "m", " ">>, MAX_COMMAND_LENGTH + 1),
   Pad(<<"r", "m", " ">>, MAX_COMMAND_LENGTH),
   Pad(<<"x01">>, MAX_COMMAND_LENGTH + 1)}

\* Commands with a shell control operator after the subcommand.
ShellCommands ==
  {<<"t", "a", "g", " ">> \o <<c>> \o <<" ", "r">> :
     c \in {";", "&", "|", "x60", "$", "<", ">", "x0A"}}

Commands ==
  {h \o t : h \in CommandHeads, t \in CommandTails}
    \cup LongCommands \cup ShellCommands \cup SAFE_COMMANDS

FewCommands ==
  {<<"t", "a", "g">>, <<"l", "o", "g">>, <<"r", "m">>,
   <<"t", "a", "g", " ", "R", "M">>}

Identifiers ==
  Strings({".", "/", "\\", "~", "a"}, MaxIdLen)
    \cup {<<"r">>, <<"n">>, <<"e">>, <<".", ".", "/">>, <<"/", "b">>, <<"R">>, <<"r", "/">>,
          <<"%", "2", "e", "%", "2", "e">>, <<"%", "2", "E", "%", "2", "e", "/", "a">>, <<"a", "%", "2", "e", "%", "2", "E">>, <<".", ".", "%", "2", "f">>, <<".", ".", "%", "2", "F", "a">>, <<".", ".", "%", "5", "c">>,
          <<"r", ".", ".", "%", "5", "C">>, <<"%", "2", "e">>, <<"a", ":">>, <<"a", ":", "/", ".", ".">>, <<"/", "a", "/", "b", "/", ".", ".">>, <<"/", "a", "~">>, <<"~", "/", ".", ".", "/", "a">>}

FewIdentifiers == {<<"/", "a">>}

Values(strings) == strings \cup {Undefined, NotAString}

GitArguments ==
  {[isObject |-> TRUE, repo |-> i, command |-> <<"t", "a", "g">>] :
     i \in Identifiers}
    \cup {[isObject |-> TRUE, repo |-> i, command |-> c] :
            i \in FewIdentifiers, c \in Commands \cup FewCommands}
    \cup {[isObject |-> o, repo |-> i, command |-> c] :
            o \in BOOLEAN, i \in Values({<<"r">>}), c \in Values({<<"t", "a", "g">>})}

NoRequest == [name |-> "none", arguments |-> <<>>]

----------------------------------------------------------------------------
(* Behaviour                                                               *)

\* The process before main() runs: an empty Map, no shutdown under way,
\* no exit timer pending and no call of process.exit made.
Init ==
  /\ \E w \in Worlds :
       /\ reposJson = w.file
       /\ fs = w.fs
       /\ processEnv = w.env
  /\ repos = <<>>
  /\ refs = {}
  /\ pc = "main"
  /\ req = NoRequest
  /\ resp = NoText
  /\ trace = <<>>
  /\ invoked = <<>>
  /\ result = NoResult
  /\ isShuttingDown = FALSE
  /\ timers = 0
  /\ exits = <<>>
  /\ transport = "none"

\* main(): the constructor loads the registry, start() registers the
\* shutdown handlers and connects the transport; a constructor or a
\* connect that throws rejects main(), whose catch calls process.exit(1).
Main ==
  /\ pc = "main"
  /\ IF loadRepositoriesThrows(reposJson)
       THEN /\ repos' = repos
            /\ transport' = transport
            /\ exits' = Append(exits, 1)
            /\ pc' = "exited"
       ELSE /\ repos' = loadRepositories(reposJson)
            /\ \E connected \in BOOLEAN :
                 IF connected
                   THEN /\ transport' = "connected"
                        /\ pc' = "idle"
                        /\ exits' = exits
                 ELSE /\ transport' = "failed"
                      /\ pc' = "exited"
                      /\ exits' = Append(exits, 1)
  /\ UNCHANGED <<reposJson, fs, processEnv, refs, req, resp, trace, invoked,
                 result, isShuttingDown, timers>>

\* Mutant of EventLoopFree: waiting for the subprocess does not block.
EventLoopFree_WhileWaiting == pc \in {"idle", "exec", "hung"}

\* execSync blocks the event loop: a request, a signal or a timer is
\* handled only when no handler is running and no execSync is waiting.
EventLoopFree == pc = "idle"

\* A tool call is handled up to its return or up to the execSync call.
Handle(request) ==
  LET h == CallToolHandler(request)
  IN  /\ req' = request
      /\ trace' = h.log
      /\ invoked' = invoked \o h.call
      /\ resp' = h.text
      /\ pc' = IF h.call = <<>> THEN "reply" ELSE "exec"
      /\ UNCHANGED <<reposJson, repos, fs, processEnv, refs, result,
                     isShuttingDown, timers, exits, transport>>

CallGit ==
  /\ EventLoopFree
  /\ \E a \in GitArguments : Handle([name |-> "git", arguments |-> a])

CallListRepos ==
  /\ EventLoopFree
  /\ Handle([name |-> "list_repos", arguments |-> <<>>])

CallUnknown ==
  /\ EventLoopFree
  /\ Handle([name |-> "other", arguments |-> <<>>])

\* execSync returns or throws: executeGit and handleGit return the text.
Finish(r) ==
  /\ result' = r
  /\ resp' = ExecutionText(r)
  /\ refs' = IF r.ok THEN GitEffect(invoked[1].command, refs) ELSE refs
  /\ pc' = "reply"
  /\ UNCHANGED <<reposJson, repos, fs, processEnv, req, trace, invoked,
                 isShuttingDown, timers, exits, transport>>

\* The subprocess ends of itself, or is killed from outside.
ExecReturn ==
  /\ pc = "exec"
  /\ \E r \in ExecResults : Finish(r)

\* The subprocess will not end of itself.
ChildHangs ==
  /\ pc = "exec"
  /\ pc' = "hung"
  /\ UNCHANGED <<reposJson, repos, fs, processEnv, refs, req, resp, trace,
                 invoked, result, isShuttingDown, timers, exits, transport>>

\* The timeout of execSync expires: the subprocess is killed with SIGTERM
\* and execSync throws. execSync sets a kill timer for a timeout above 0
\* only.
KillOnTimeout ==
  /\ pc \in {"exec", "hung"}
  /\ invoked[1].timeout > 0
  /\ Finish(TimedOut)

\* The response is sent and the handler's frame is gone.
Reply ==
  /\ pc = "reply"
  /\ pc' = "idle"
  /\ req' = NoRequest
  /\ resp' = NoText
  /\ trace' = <<>>
  /\ invoked' = <<>>
  /\ result' = NoResult
  /\ UNCHANGED <<reposJson, repos, fs, processEnv, refs, isShuttingDown,
                 timers, exits, transport>>

\* The events that start() routes to shutdown.
Triggers == {"SIGINT", "SIGTERM", "uncaughtException", "unhandledRejection"}

\* shutdown(signal)
shutdown(signal) ==
  IF isShuttingDown THEN UNCHANGED <<isShuttingDown, timers>>
  ELSE /\ isShuttingDown' = TRUE
       /\ timers' = timers + 1

\* A handler registered by start() runs.
Trigger ==
  /\ EventLoopFree
  /\ \E signal \in Triggers : shutdown(signal)
  /\ UNCHANGED <<reposJson, repos, fs, processEnv, refs, pc, req, resp, trace,
                 invoked, result, exits, transport>>

\* The callback of the timer set by shutdown: process.exit(0).
ExitTimer ==
  /\ EventLoopFree
  /\ timers > 0
  /\ timers' = timers - 1
  /\ exits' = Append(exits, 0)
  /\ pc' = "exited"
  /\ UNCHANGED <<reposJson, repos, fs, processEnv, refs, req, resp, trace,
                 invoked, result, isShuttingDown, transport>>

Next ==
  \/ Main
  \/ CallGit
  \/ CallListRepos
  \/ CallUnknown
  \/ ExecReturn
  \/ ChildHangs
  \/ KillOnTimeout
  \/ Reply
  \/ Trigger
  \/ ExitTimer

Spec == Init /\ [][Next]_vars

----------------------------------------------------------------------------
(* Properties                                                              *)

\* The call in progress is a git call with both arguments strings.
GitCallWithStrings ==
  /\ pc # "idle"
  /\ req.name = "git"
  /\ req.arguments.isObject
  /\ req.arguments.repo \notin {Null, Undefined, NotAString}
  /\ req.arguments.command \notin {Null, Undefined, NotAString}

RawRepo == req.arguments.repo

RawCommand == req.arguments.command

\* The checks and accesses of the call in progress, by name.
Done(op) == \E i \in 1..Len(trace) : trace[i].op = op

\* The call in progress reached executeGit.
InExecuteGit == GitCallWithStrings /\ Done("length")

\* The codes of the characters that the control-character strip removes.
StrippedCodes == (0..8) \cup (11..12) \cup (14..31) \cup {127}

RECURSIVE WithoutControl(_)
\* s with every character of the stripped ranges removed, the others
\* kept in their order (s is taken by halves).
WithoutControl(s) ==
  IF s = <<>> THEN <<>>
  ELSE IF Len(s) = 1
    THEN IF CharCode(s[1]) \in StrippedCodes THEN <<>> ELSE s
  ELSE WithoutControl(SubSeq(s, 1, Len(s) \div 2))
         \o WithoutControl(SubSeq(s, Len(s) \div 2 + 1, Len(s)))

\* The first whitespace-delimited token of s, empty when s has none.
LeadingToken(s) ==
  LET word == {i \in 1..Len(s) : s[i] \notin Whitespace}
      from == Min(word)
      gaps == {i \in from..Len(s) : s[i] \in Whitespace}
  IN  IF word = {} THEN <<>>
      ELSE SubSeq(s, from, IF gaps = {} THEN Len(s) ELSE Min(gaps) - 1)

\* The subcommand of the command of the call in progress.
Subcommand == LeadingToken(WithoutControl(RawCommand))

\* s holds a deny-listed token as a substring.
HasDenied(s) ==
  \E i \in 1..Len(BLOCKED_ARGS) :
     \E k \in 1..Len(s) :
        /\ k + Len(BLOCKED_ARGS[i]) - 1 <= Len(s)
        /\ \A j \in 1..Len(BLOCKED_ARGS[i]) : s[k + j - 1] = BLOCKED_ARGS[i][j]

Denials == {"TooLong", "NotAllowed", "Blocked"}

ExecutionKinds ==
  {"Output", "EmptyOutput", "GitMissing", "Timeout", "OutputTooLarge",
   "GitError", "GenericError"}

NoExecutionKinds ==
  {"UsageError", "NotFound", "NotTracked", "TooLong", "NotAllowed", "Blocked",
   "ListEmpty", "List", "UnknownTool"}

\* The marker directory of a location: <location>/.shadowgit.git.
MarkerOf(location) ==
  (IF location[Len(location)] = "/" THEN location ELSE location \o <<"/">>)
    \o SHADOWGIT_DIR

\* C1: the git executable is invoked only in a git call whose arguments
\* are strings, whose repository resolved to a location holding the marker
\* directory, whose command has at most 1000 characters, an allow-listed
\* subcommand and no deny-listed token found; at most once per call, and
\* never in a call that ends in a usage error, not found, not tracked, a
\* denial, a listing or an unknown tool.
C1_ExecutableOnlyWhenAuthorized ==
  /\ Len(invoked) <= 1
  /\ invoked # <<>> =>
       /\ GitCallWithStrings
       /\ invoked[1].cwd # Null
       /\ invoked[1].cwd = resolveRepoPath(RawRepo).path
       /\ MarkerOf(invoked[1].cwd) \in fs
       /\ Len(RawCommand) <= 1000
       /\ Subcommand \in SAFE_COMMANDS
       /\ ~HasDenied(RawCommand)
  /\ resp.kind \in NoExecutionKinds => invoked = <<>>
  /\ (pc # "idle" /\ req.name # "git") => invoked = <<>>

\* C1 witness: the executable runs for the registered name r.
C1_Witness ==
  /\ pc = "exec"
  /\ RawRepo = <<"r">>
  /\ RawCommand = <<"t", "a", "g">>
  /\ Len(invoked) = 1

\* C2: executing an allowed command leaves the refs of the snapshot store
\* as they were.
C2_StoreUnchanged == refs = {}

\* C3: a command of at most 1000 characters with an allow-listed
\* subcommand and a deny-listed token anywhere in it as a substring is
\* denied for that token, and the executable is not invoked.
C3_DeniedTokenAnywhere ==
  (/\ InExecuteGit
   /\ Len(RawCommand) <= 1000
   /\ Subcommand \in SAFE_COMMANDS
   /\ HasDenied(RawCommand))
    => /\ pc = "reply"
       /\ resp.kind = "Blocked"
       /\ \E i \in 1..Len(BLOCKED_ARGS) : resp.text = BLOCKED_ARGS[i]
       /\ invoked = <<>>

\* C3 witness: 'tag rrm' is denied for the rm inside the word rrm.
C3_Witness ==
  /\ InExecuteGit
  /\ RawCommand = <<"t", "a", "g", " ", "r", "r", "m">>
  /\ resp = Text("Blocked", <<"r", "m">>)

\* C4: a command whose subcommand (the first token once the control
\* characters are stripped) is not allow-listed, the empty command too, is
\* denied whatever follows, and the executable is not invoked.
C4_UnlistedSubcommandDenied ==
  (InExecuteGit /\ Subcommand \notin SAFE_COMMANDS)
    => /\ pc = "reply"
       /\ invoked = <<>>
       /\ resp.kind \in {"NotAllowed", "TooLong"}
       /\ Len(RawCommand) <= 1000 => resp = Text("NotAllowed", Subcommand)

\* C4 witness: the empty command is denied.
C4_Witness ==
  /\ InExecuteGit
  /\ RawCommand = <<>>
  /\ resp = Text("NotAllowed", <<>>)

\* C5: a command of at most 1000 characters with an allow-listed
\* subcommand and no deny-listed token in it is allowed: the executable is
\* invoked once and the call returns the outcome of the execution (the
\* output of a subprocess that printed some), never a denial.
C5_CleanCommandAllowed ==
  (/\ InExecuteGit
   /\ Len(RawCommand) <= 1000
   /\ Subcommand \in SAFE_COMMANDS
   /\ ~HasDenied(RawCommand))
    => /\ Len(invoked) = 1
       /\ resp.kind \notin Denials
       /\ pc = "reply" =>
            /\ resp.kind \in ExecutionKinds
            /\ (result.ok /\ result.stdout # <<>>) =>
                 resp = Text("Output", result.stdout)

\* C5 witness: a tab-delimited 'tag r' ran and its output is returned.
C5_Witness ==
  /\ pc = "reply"
  /\ InExecuteGit
  /\ RawCommand = <<"x09", "t", "a", "g", "x09", "r">>
  /\ resp = Text("Output", <<"o">>)

\* C6: the command string handed to the executable holds no deny-listed
\* token.
C6_ExecutedHasNoDeniedToken ==
  invoked # <<>> => ~HasDenied(invoked[1].command)

\* C7: the string executed is 'git ' followed by the command as received
\* without the characters of the stripped ranges, the others in their
\* order; it holds no such character and is not the unsanitized command.
C7_ExecutedIsStrippedCommand ==
  invoked # <<>> =>
    LET executed == invoked[1].command
    IN  /\ executed = <<"g", "i", "t", " ">> \o WithoutControl(RawCommand)
        /\ \A i \in 1..Len(executed) : CharCode(executed[i]) \notin StrippedCodes
        /\ (\E i \in 1..Len(RawCommand) : CharCode(RawCommand[i]) \in StrippedCodes)
             => executed # <<"g", "i", "t", " ">> \o RawCommand

\* C7 witness: a command with control characters in it is executed.
C7_Witness ==
  /\ pc = "exec"
  /\ RawCommand = <<"t", "x01", "a", "x0B", "g", " ", "x01", "r">>
  /\ invoked[1].command = <<"g", "i", "t", " ", "t", "a", "g", " ", "r">>

\* C8: a command of more than 1000 characters, counted before the strip,
\* is denied with the length error before the allow-list and the deny-list
\* are consulted, whatever it holds; one of exactly 1000 characters is not
\* rejected for its length.
C8_OverlongDenied ==
  InExecuteGit =>
    /\ Len(RawCommand) > 1000 =>
         /\ pc = "reply"
         /\ resp = Text("TooLong", <<>>)
         /\ ~Done("allow-list") /\ ~Done("deny-list") /\ ~Done("execSync")
         /\ invoked = <<>>
    /\ Len(RawCommand) = 1000 => resp.kind # "TooLong"

\* C8 witness: 1001 characters, 1000 of them once stripped, are too long.
C8_Witness ==
  /\ InExecuteGit
  /\ Len(RawCommand) = 1001
  /\ Len(WithoutControl(RawCommand)) = 1000
  /\ resp.kind = "TooLong"

\* The lower-cased identifier holds one of the traversal patterns.
TraversalIn(identifier) ==
  \E i \in 1..Len(PATH_TRAVERSAL_PATTERNS) :
     Includes(ToLowerCase(identifier), PATH_TRAVERSAL_PATTERNS[i])

\* C9: an identifier whose lower-cased form holds a traversal pattern is
\* rejected by resolve before the registry is consulted and before any
\* existence check, a registered name too.
C9_TraversalRejectedFirst ==
  (GitCallWithStrings /\ TraversalIn(RawRepo))
    => /\ resolveRepoPath(RawRepo).path = Null
       /\ resp.kind = "NotFound"
       /\ trace = <<>>
       /\ invoked = <<>>

\* C9 witness: the registered name '../' is rejected.
C9_Witness ==
  /\ GitCallWithStrings
  /\ RawRepo = <<".", ".", "/">>
  /\ MapHas(repos, RawRepo)
  /\ resp.kind = "NotFound"

\* C10: an identifier without traversal pattern that is a name of the
\* registry resolves to the registered location of that name, with no
\* existence check.
C10_RegisteredNameResolves ==
  (GitCallWithStrings /\ ~TraversalIn(RawRepo) /\ MapHas(repos, RawRepo))
    => /\ resolveRepoPath(RawRepo).path = MapGet(repos, RawRepo)
       /\ \A i \in 1..Len(resolveRepoPath(RawRepo).log) :
             resolveRepoPath(RawRepo).log[i].op # "existsSync"

\* The identifier looks like a filesystem path.
PathLike(identifier) ==
  /\ identifier # <<>>
  /\ \/ identifier[1] \in {"/", "~"}
     \/ \E i \in 1..Len(identifier) : identifier[i] = ":"
     \/ Len(identifier) >= 2 /\ identifier[1] = "\\" /\ identifier[2] = "\\"

\* The identifier with a leading '~' expanded to the home directory.
TildeExpanded(identifier) ==
  IF identifier # <<>> /\ identifier[1] = "~"
    THEN HomeDir \o Tail(identifier)
  ELSE identifier

\* C11: an identifier without traversal pattern that is no registry name
\* resolves if and only if it is path-like and its tilde-expanded,
\* normalized form is absolute and exists; it resolves to that form, and to
\* null otherwise.
C11_LiteralPathResolves ==
  (GitCallWithStrings /\ ~TraversalIn(RawRepo) /\ ~MapHas(repos, RawRepo))
    => LET form == Normalize(TildeExpanded(RawRepo))
       IN  resolveRepoPath(RawRepo).path =
             IF PathLike(RawRepo) /\ form[1] = "/" /\ form \in fs
               THEN form
             ELSE Null

\* The arguments of the call in progress are an object holding repo and
\* command, both strings.
BothStrings ==
  /\ req.arguments.isObject
  /\ req.arguments.repo \notin {Null, Undefined, NotAString}
  /\ req.arguments.command \notin {Null, Undefined, NotAString}

\* C12: a git call whose arguments are not an object holding repo and
\* command as strings returns the usage error, with no repository
\* resolution, no marker check and no subprocess.
C12_UsageErrorWithoutStrings ==
  (pc # "idle" /\ req.name = "git" /\ ~BothStrings)
    => /\ pc = "reply"
       /\ resp = Text("UsageError", <<>>)
       /\ trace = <<>>
       /\ invoked = <<>>

\* C12 witness: repo is a string of a registered name, command is absent.
C12_Witness ==
  /\ pc = "reply"
  /\ req.name = "git"
  /\ req.arguments.isObject
  /\ req.arguments.repo = <<"r">>
  /\ req.arguments.command = Undefined
  /\ resp.kind = "UsageError"

\* C13: when the repository resolves to a location whose marker directory
\* does not exist, the call returns the not-tracked text for that location
\* whatever the command is: no command check is made and the executable is
\* not invoked.
C13_NotTrackedBeforeCommandChecks ==
  (/\ GitCallWithStrings
   /\ resolveRepoPath(RawRepo).path # Null
   /\ resolveRepoPath(RawRepo).path # <<>>
   /\ MarkerOf(resolveRepoPath(RawRepo).path) \notin fs)
    => /\ pc = "reply"
       /\ resp = Text("NotTracked", resolveRepoPath(RawRepo).path)
       /\ ~Done("length") /\ ~Done("allow-list") /\ ~Done("deny-list")
       /\ ~Done("execSync")
       /\ invoked = <<>>

\* C13 witness: an overlong command on the untracked directory /a.
C13_Witness ==
  /\ GitCallWithStrings
  /\ RawRepo = <<"/", "a">>
  /\ Len(RawCommand) > 1000
  /\ resp = Text("NotTracked", <<"/", "a">>)

\* The texts a call can return, by template.
ResponseKinds == NoExecutionKinds \cup ExecutionKinds

Failed == pc = "reply" /\ invoked # <<>> /\ ~result.ok

\* The timeout configured: 10000 ms when SHADOWGIT_TIMEOUT is not set.
ConfiguredTimeout ==
  IF "SHADOWGIT_TIMEOUT" \notin DOMAIN processEnv
    THEN [ms |-> 10000, seconds |-> <<"1", "0">>]
  ELSE IF processEnv["SHADOWGIT_TIMEOUT"] = <<"0">>
    THEN [ms |-> 0, seconds |-> <<"0">>]
  ELSE [ms |-> -1, seconds |-> <<>>]

\* C15: when the subprocess failed with the termination signal SIGTERM the
\* call returns the timeout text, which states the configured limit in
\* seconds (10 for the default of 10000 ms).
C15_SigtermIsTimeout ==
  (Failed /\ result.signal = "SIGTERM")
    => resp = Text("Timeout", ConfiguredTimeout.seconds)

\* C15 witness: a subprocess killed on timeout (ETIMEDOUT, SIGTERM).
C15_Witness ==
  /\ Failed
  /\ result.code = "ETIMEDOUT"
  /\ result.signal = "SIGTERM"
  /\ resp = Text("Timeout", <<"1", "0">>)

\* The failure is a buffer overflow: code ENOBUFS or a message that
\* mentions maxBuffer.
Overflow ==
  \/ result.code = "ENOBUFS"
  \/ \E i \in 1..(Len(result.message) - 8) :
        SubSeq(result.message, i, i + 8) = <<"m", "a", "x", "B", "u", "f", "f", "e", "r">>

\* C16: when the captured output exceeded the cap the call returns the
\* output-too-large text, not the timeout, git error or generic text.
C16_OverflowIsOutputTooLarge ==
  (Failed /\ Overflow) => resp = Text("OutputTooLarge", <<>>)

\* Position i of s lies in a run of non-whitespace characters that begins
\* with a '/' at or before i.
InPath(s, i) ==
  \E j \in 1..i :
     /\ s[j] = "/"
     /\ \A k \in j..i : s[k] \notin Whitespace

\* Position i of s is where such a run begins, taken as long as it can be.
PathStart(s, i) == s[i] = "/" /\ (i = 1 \/ ~InPath(s, i - 1))

RECURSIVE Concat(_)
Concat(pieces) ==
  IF pieces = <<>> THEN <<>> ELSE Head(pieces) \o Concat(Tail(pieces))

\* s with every maximal run of non-whitespace characters that begins with
\* '/' replaced by '[path]'.
Redacted(s) ==
  Concat([i \in 1..Len(s) |->
            IF PathStart(s, i) THEN <<"[", "p", "a", "t", "h", "]">>
            ELSE IF InPath(s, i) THEN <<>>
            ELSE <<s[i]>>])

\* The failure is neither a missing executable, nor a timeout, nor a
\* buffer overflow.
PlainFailure ==
  Failed /\ result.code # "ENOENT" /\ result.signal # "SIGTERM" /\ ~Overflow

\* C17: when the subprocess exited with status 128 the call returns 'Git
\* error: ' and the stderr text, or the error message when stderr is
\* empty, with every maximal run of non-whitespace characters that begins
\* with '/' replaced by '[path]'; the text holds no '/'.
C17_Status128Redacted ==
  (PlainFailure /\ result.status = 128)
    => /\ resp.kind = "GitError"
       /\ resp.text = Redacted(IF result.stderr # <<>> THEN result.stderr
                               ELSE result.message)
       /\ \A i \in 1..Len(resp.text) : resp.text[i] # "/"

\* C17 witness: stderr with a '/' inside a word and a path of its own.
C17_Witness ==
  /\ PlainFailure
  /\ result.status = 128
  /\ result.stderr = <<"f", "a", "t", "a", "l", ":", " ", "a", "/", "b", " ", "/", "/", "c", "x0A">>
  /\ resp.text = <<"f", "a", "t", "a", "l", ":", " ", "a", "[", "p", "a", "t", "h", "]", " ", "[", "p", "a", "t", "h", "]", "x0A">>

\* The path whose existence was tested last before the command checks.
LastExistenceCheck ==
  LET at == {i \in 1..Len(trace) : trace[i].op = "existsSync"}
  IN  trace[Max(at)].arg

\* C18: an invocation for the resolved location L has working directory L,
\* GIT_WORK_TREE = L and GIT_DIR = L/.shadowgit.git, the marker path whose
\* existence was checked just before; both replace what the environment of
\* the process holds under these names, the other variables are inherited,
\* and the invocation carries the configured timeout (10000 ms by
\* default) and the output cap of 10 MiB.
C18_InvocationEnvironment ==
  invoked # <<>> =>
    LET call == invoked[1]
        L    == resolveRepoPath(RawRepo).path
    IN  /\ L # Null
        /\ call.cwd = L
        /\ call.env["GIT_WORK_TREE"] = L
        /\ call.env["GIT_DIR"] = MarkerOf(L)
        /\ call.env["GIT_DIR"] = LastExistenceCheck
        /\ call.env["GIT_DIR"] \in fs
        /\ \A k \in DOMAIN processEnv \ {"GIT_DIR", "GIT_WORK_TREE"} :
              call.env[k] = processEnv[k]
        /\ DOMAIN call.env = DOMAIN processEnv \cup {"GIT_DIR", "GIT_WORK_TREE"}
        /\ call.timeout = ConfiguredTimeout.ms
        /\ call.maxBuffer = 10485760

\* C18 witness: the process has a GIT_DIR and a GIT_WORK_TREE of its own
\* and the invocation for /a carries those of /a.
C18_Witness ==
  /\ pc = "exec"
  /\ "GIT_DIR" \in DOMAIN processEnv
  /\ processEnv["GIT_DIR"] = <<"/", "x">>
  /\ processEnv["GIT_WORK_TREE"] = <<"/">>
  /\ invoked[1].cwd = <<"/", "a">>
  /\ invoked[1].env["GIT_DIR"] = <<"/", "a", "/">> \o SHADOWGIT_DIR
  /\ invoked[1].env["GIT_WORK_TREE"] = <<"/", "a">>
  /\ invoked[1].timeout = 10000

\* The number of places where t occurs in s.
Occurrences(s, t) ==
  Cardinality({i \in 1..(Len(s) - Len(t) + 1) : SubSeq(s, i, i + Len(t) - 1) = t})

\* The line pair that lists a name with its location.
Listed(name, location) ==
  <<"u2022", " ">> \o name
    \o <<"x0A", " ", " ", "P", "a", "t", "h", ":", " ">> \o location

\* C19: list_repos returns the none-found text if and only if the registry
\* is empty; otherwise its text holds every loaded name with its registered
\* location, one entry per registry key; it returns no error and invokes
\* nothing.
C19_ListReposEnumerates ==
  (pc # "idle" /\ req.name = "list_repos")
    => /\ pc = "reply"
       /\ invoked = <<>>
       /\ trace = <<>>
       /\ resp.kind \in {"ListEmpty", "List"}
       /\ resp.kind = "ListEmpty" <=> Keys(repos) = <<>>
       /\ resp.kind = "List" =>
            /\ \A i \in 1..Len(repos) :
                  Occurrences(resp.text, Listed(repos[i].name, repos[i].path)) >= 1
            /\ Occurrences(resp.text, <<"u2022", " ">>) = Len(repos)
            /\ Occurrences(resp.text, <<"P", "a", "t", "h", ":", " ">>) = Len(repos)
            /\ Cardinality({repos[i].name : i \in 1..Len(repos)}) = Len(repos)

\* C19 witness: the listing of a registry loaded from a list that names r
\* twice holds r once, with the location of its last occurrence.
C19_Witness ==
  /\ pc = "reply"
  /\ req.name = "list_repos"
  /\ resp.kind = "List"
  /\ Occurrences(resp.text, Listed(<<"r">>, <<"/", "a">>)) = 1
  /\ Occurrences(resp.text, <<"u2022", " ", "r">>) = 1

\* C19 in an empty registry: the none-found text.
C19_EmptyWitness ==
  /\ pc = "reply"
  /\ req.name = "list_repos"
  /\ repos = <<>>
  /\ resp.kind = "ListEmpty"

\* The list of {name, path} objects that the registry was loaded from.
SourceList ==
  IF reposJson.state = "parsed" /\ reposJson.entries # <<"object">>
    THEN reposJson.entries
  ELSE <<>>

\* The path of the last occurrence of name in the source list.
LastPathOf(name) ==
  SourceList[Max({i \in 1..Len(SourceList) : SourceList[i].name = name})].path

\* The server has started: main() ran and did not end in process.exit(1).
Started == pc # "main" /\ (exits = <<>> \/ exits[1] = 0)

\* C20: at startup and after any sequence of tool calls the registry is
\* the mapping from each distinct name of the source list to the path of
\* the last occurrence of that name: no call adds, removes or changes an
\* entry.
C20_RegistryIsLastWriteWins ==
  Started =>
  /\ {repos[i].name : i \in 1..Len(repos)}
       = {SourceList[i].name : i \in 1..Len(SourceList)}
  /\ Cardinality({repos[i].name : i \in 1..Len(repos)}) = Len(repos)
  /\ \A i \in 1..Len(repos) : repos[i].path = LastPathOf(repos[i].name)

\* C20 witness: after a call that created a tag and a later call that
\* failed, r, listed twice, is registered with its last path.
C20_Witness ==
  /\ pc = "reply"
  /\ refs # {}
  /\ ~result.ok
  /\ Cardinality({i \in 1..Len(SourceList) : SourceList[i].name = <<"r">>}) = 2
  /\ SourceList[1] = Entry(<<"r">>, <<"/", "x">>)
  /\ MapGet(repos, <<"r">>) = <<"/", "a">>

\* The registry source is unusable: missing, unreadable, not JSON, or the
\* JSON of a value that is not an array.
UnusableSource ==
  \/ reposJson.state # "parsed"
  \/ reposJson.entries = <<"object">>

\* C21: whatever the registry source holds, an unusable source is loaded
\* as the empty registry and the server goes on to connect its transport:
\* main() does not end in process.exit before that.
C21_UnusableSourceLoadsEmpty ==
  (pc # "main" /\ UnusableSource)
    => /\ repos = <<>>
       /\ transport # "none"
       /\ transport = "connected" => exits \in {<<>>, <<0>>}

\* The scheduling of the process: a handler that has its text returns,
\* a subprocess ends or goes on for ever, the kill timer of execSync
\* fires when it is set, and the timers phase of the event loop runs the
\* exit callback whenever the loop comes round to it.
Fairness ==
  /\ WF_vars(Reply)
  /\ WF_vars(ExecReturn \/ ChildHangs)
  /\ WF_vars(KillOnTimeout)
  /\ SF_vars(ExitTimer)

FairSpec == Spec /\ Fairness

\* The process has ended through the exit timer of shutdown.
ExitedByShutdown == pc = "exited" /\ exits = <<0>>

\* C22: once shutdown has been triggered the flag stays set, no more
\* than the one exit timer is ever pending, and the process eventually
\* exits with status 0.
C22_ShutdownCompletes ==
  /\ [](isShuttingDown => [](isShuttingDown /\ timers <= 1))
  /\ isShuttingDown ~> ExitedByShutdown

\* A subprocess started by execSync has not yet ended.
SubprocessRunning == pc \in {"exec", "hung"}

\* C23: no more than one subprocess runs at a time: while one runs, no
\* other request is taken up and no other invocation is made, and the
\* only thing that happens next is the end of that subprocess.
C23_OneSubprocessAtATime ==
  /\ [](Len(invoked) <= 1)
  /\ [][SubprocessRunning =>
          /\ req' = req
          /\ invoked' = invoked
          /\ pc' \in {"exec", "hung", "reply"}]_vars

C23_Witness == SubprocessRunning /\ refs # {} /\ isShuttingDown

\* C24: a call that has started a subprocess can always come back: the
\* subprocess ends of itself, or the timeout of the invocation ends it.
C24_NoCallWaitsForever ==
  SubprocessRunning => ENABLED (ExecReturn \/ KillOnTimeout)

\* C25: an identifier that begins with "/" and is no registry name is
\* never tilde-expanded: when it resolves, it resolves to its own
\* normalized form, whatever "~" it holds further on.
C25_OnlyLeadingTildeExpands ==
  (/\ GitCallWithStrings
   /\ RawRepo # <<>>
   /\ RawRepo[1] = "/"
   /\ ~MapHas(repos, RawRepo)
   /\ resolveRepoPath(RawRepo).path # Null)
    => resolveRepoPath(RawRepo).path = Normalize(RawRepo)

\* C26: the process exits once at most; an exit with a status other
\* than 0 happens only when the transport could not be connected, an
\* exit after the transport was connected has status 0 and comes from
\* shutdown, and no exit happens while a tool call is being handled.
C26_NonZeroExitOnlyWithoutTransport ==
  /\ Len(exits) <= 1
  /\ pc = "exited" <=> exits # <<>>
  /\ exits # <<>> =>
       /\ exits[1] # 0 => transport = "failed"
       /\ transport = "connected" => exits[1] = 0 /\ isShuttingDown
       /\ req = NoRequest

\* The characters with which the shell starts another program or
\* redirects: ; & | backquote $ < > and the newline.
ShellOperators == {";", "&", "|", "x60", "$", "<", ">", "x0A"}

\* C27: the command line handed to the shell holds no shell control
\* operator, so the shell runs git and nothing else.
C27_NoShellOperatorExecuted ==
  invoked # <<>> =>
    \A i \in 1..Len(invoked[1].command) :
       invoked[1].command[i] \notin ShellOperators

\* C28: the command that is an allow-listed subcommand and nothing else
\* is allowed: executeGit goes on to run it.
C28_AllowListedAloneIsAllowed ==
  (InExecuteGit /\ RawCommand \in SAFE_COMMANDS)
    => /\ Len(invoked) = 1
       /\ invoked[1].command = <<"g", "i", "t", " ">> \o RawCommand

\* The identifier has ".." as one of its "/"-separated segments.
HasDotDotSegment(identifier) ==
  \E i \in 1..Len(SplitSlash(identifier)) :
     SplitSlash(identifier)[i] = <<".", ".">>

\* C29: an identifier with ".." as a path segment that is no registry
\* name never resolves to a location.
C29_DotDotSegmentRejected ==
  (/\ GitCallWithStrings
   /\ HasDotDotSegment(RawRepo)
   /\ ~MapHas(repos, RawRepo))
    => resolveRepoPath(RawRepo).path = Null

\* C30: the text returned for a subprocess that failed holds no absolute
\* path: no '/' is left in it, whatever the kind of the failure.
C30_NoPathInFailureText ==
  Failed => \A i \in 1..Len(resp.text) : resp.text[i] # "/"

====
